---- MODULE Spec2Model ----
(***************************************************************************)
(* Model of the capsule message buffer (core/src/packets/mbuf.rs):         *)
(*   - the byte buffer of one rte_mbuf and the resize / write primitives   *)
(*     of Mbuf (specification Spec);                                       *)
(*   - the Original / Clone handles of one allocation and the operations   *)
(*     that create, consume and destroy them (specification SpecOwn).      *)
(*                                                                         *)
(* Machine integers keep a width.  u16 is exact.  TLC's integers are 32    *)
(* bits wide, so u32 and usize are narrowed to 24 and 30 bits; the order   *)
(* u16 < u32 < usize of the 64-bit target is kept, and every cast and      *)
(* every wrap-around is computed modulo the narrowed width.                *)
(*                                                                         *)
(* Rust's unsigned and signed + and - panic on overflow when the crate is  *)
(* built with overflow checks (the dev/test profile) and wrap when it is   *)
(* built without (the release profile).  The build is a choice made once,  *)
(* before the program runs: overflow_checks.                               *)
(***************************************************************************)
EXTENDS Integers, Sequences, FiniteSets, TLC

-----------------------------------------------------------------------------
(* Bounds of the model. *)

\* Data room of one buffer (RTE_MBUF_DEFAULT_DATAROOM = 2048 in the driver).
DataRoom == 4
\* Headroom in front of the live bytes (RTE_PKTMBUF_HEADROOM = 128).
Headroom == 1
\* Longest item or slice handed to write_data / write_data_slice.
MaxItem == 2
\* Number of Mbuf handles created over the life of one allocation.
MaxHandles == 4

-----------------------------------------------------------------------------
(* Machine integers. *)

U16_MOD == 65536
U32_MOD == 16777216
USIZE_MOD == 1073741824
USIZE_MAX == USIZE_MOD - 1
ISIZE_MIN == 0 - (USIZE_MOD \div 2)
ISIZE_MAX == (USIZE_MOD \div 2) - 1

\* The length tests::extend_data_buffer_too_much asks for.
TooMuch == 999999

\* x modulo m, in 0..m-1 for negative x too.
Mod(x, m) == ((x % m) + m) % m

\* `x as u16`, `x as u32`, `x as isize` (from usize), `x as usize` (from isize).
AsU16(x) == Mod(x, U16_MOD)
AsU32(x) == Mod(x, U32_MOD)
AsIsize(x) == IF x > ISIZE_MAX THEN x - USIZE_MOD ELSE x
AsUsize(x) == Mod(x, USIZE_MOD)

\* a + b and a - b on an unsigned type of modulus m: the wrapped value, and
\* whether the exact result does not fit.
CheckedAdd(a, b, m) == [val |-> Mod(a + b, m), ovf |-> a + b >= m]
CheckedSub(a, b, m) == [val |-> Mod(a - b, m), ovf |-> a - b < 0]
\* a - b and -a on isize.
CheckedSubI(a, b) ==
    [val |-> Mod(a - b - ISIZE_MIN, USIZE_MOD) + ISIZE_MIN,
     ovf |-> a - b < ISIZE_MIN \/ a - b > ISIZE_MAX]
CheckedNegI(a) ==
    [val |-> IF a = ISIZE_MIN THEN ISIZE_MIN ELSE 0 - a, ovf |-> a = ISIZE_MIN]

-----------------------------------------------------------------------------
(* The buffer. *)

VARIABLES
    mem,              \* the allocation: buf_addr[0 .. buf_len)
    data_len,         \* rte_mbuf.data_len (u16)
    pkt_len,          \* rte_mbuf.pkt_len (u32)
    overflow_checks,  \* TRUE: + and - panic on overflow; FALSE: they wrap
    halted,           \* the thread panicked or ran into undefined behaviour
    ub,               \* undefined behaviour was executed
    last,             \* the most recent call: operation, arguments, result
    pre,              \* data_len, pkt_len and mem as they were before that call
    chain,            \* before the extend that the most recent shrink undid
    status,           \* per handle: "unused", "live", "dropped", "forgotten"
    tag,              \* per handle: "Original" or "Clone"
    ptrs,             \* raw MbufPtr values held outside any Mbuf
    free_count,       \* calls of the pool's free for this allocation
    own_op,           \* the most recent handle operation, its handles, and
                      \* how many times it called the pool's free
    room,             \* data room of the pool the buffer was allocated from
    layer,            \* the packet layer through which the buffer is viewed
    ping              \* a run of ping4d's reply_echo: where it stands, the
                      \* request it was given, the reply it builds

bvars == <<mem, data_len, pkt_len, overflow_checks, halted, ub, last, pre, chain,
           room, layer, ping>>
ovars == <<status, tag, ptrs, free_count, own_op>>
vars == <<mem, data_len, pkt_len, overflow_checks, halted, ub, last, pre, chain,
          status, tag, ptrs, free_count, own_op, room, layer, ping>>

\* rte_mbuf.buf_len and rte_mbuf.data_off; no operation of Mbuf writes them.
buf_len == Headroom + room
data_off == Headroom

Addr == 0 .. (buf_len - 1)
\* Byte values.  Two values tell any two positions apart, which is all the
\* relocation properties need.
Byte == {0, 1}
\* The memories a buffer is handed out with: any bytes in the data room, the
\* headroom zeroed.
AllMem == {m \in [Addr -> Byte] : \A a \in 0 .. (data_off - 1) : m[a] = 0}

\* The fields of the raw struct and the bytes, as one value.
Cur == [data_len |-> data_len, pkt_len |-> pkt_len, mem |-> mem]

\* What a call comes to: Ok / an error kind, a panic, or undefined behaviour,
\* and the buffer as the call leaves it.
Ok(st) == [res |-> "Ok", st |-> st]
Err(e, st) == [res |-> e, st |-> st]
Panic(st) == [res |-> "Panic", st |-> st]
Undefined(st) == [res |-> "UB", st |-> st]

IsErr(res) == res \in {"NotResized", "BadOffset", "OutOfBuffer"}

\* Mbuf::data_len
DataLen(st) == st.data_len

\* Mbuf::data_address: buf_addr.offset(data_off as isize + offset as isize),
\* as an index into the allocation.
data_address(offset) == data_off + AsIsize(offset)

\* The n bytes at p lie inside the allocation.
InAlloc(p, n) == p >= 0 /\ p + n <= buf_len

\* Mutant of copy: a byte-by-byte copy in ascending order, which reads bytes
\* it has already overwritten when dst lies inside [src, src + n).
RECURSIVE copy_ascending(_, _, _, _)
copy_ascending(m, src, dst, n) ==
    IF n = 0 THEN m
    ELSE copy_ascending([m EXCEPT ![dst] = m[src]], src + 1, dst + 1, n - 1)

\* Mutant of copy: a move that clears what it leaves behind: the bytes of
\* the source that the destination does not cover are zeroed.
copy_and_clear(m, src, dst, n) ==
    [a \in Addr |->
        IF a >= dst /\ a < dst + n THEN m[a - dst + src]
        ELSE IF a >= src /\ a < src + n THEN 0
        ELSE m[a]]

\* ptr::copy (memmove): the n bytes at src, as they were, end up at dst.
copy(m, src, dst, n) ==
    [a \in Addr |-> IF a >= dst /\ a < dst + n THEN m[a - dst + src] ELSE m[a]]

\* ptr::copy_nonoverlapping from a caller's value into the buffer.
copy_nonoverlapping(m, bytes, dst) ==
    [a \in Addr |->
        IF a >= dst /\ a < dst + Len(bytes) THEN bytes[a - dst + 1] ELSE m[a]]

\* Mutant of tailroom: the headroom is counted as free room at the tail.
tailroom_without_data_off(st) == CheckedSub(buf_len, st.data_len, U16_MOD)

\* Mbuf::tailroom: (buf_len - data_off - data_len) in u16.
tailroom(st) == CheckedSub(buf_len - data_off, st.data_len, U16_MOD)

\* The record keeping of extend: data_len += len as u16; pkt_len += len as u32.
extend_record(st, len, oc) ==
    LET dl == CheckedAdd(st.data_len, AsU16(len), U16_MOD)
        pl == CheckedAdd(st.pkt_len, AsU32(len), U32_MOD)
    IN  IF dl.ovf /\ oc THEN Panic(st)
        ELSE IF pl.ovf /\ oc THEN Panic([st EXCEPT !.data_len = dl.val])
        ELSE Ok([st EXCEPT !.data_len = dl.val, !.pkt_len = pl.val])

\* Mbuf::extend
extend(st, offset, len, oc) ==
    IF ~(len > 0) THEN Err("NotResized", st)
    ELSE IF ~(offset <= DataLen(st)) THEN Err("NotResized", st)
    ELSE LET tr == tailroom(st) IN
    IF tr.ovf /\ oc THEN Panic(st)
    ELSE IF ~(len < tr.val) THEN Err("NotResized", st)
    ELSE LET to_copy == DataLen(st) - offset
             src == data_address(offset)
             dst == data_address(offset + len)
         IN
    IF to_copy > 0 /\ ~(InAlloc(src, to_copy) /\ InAlloc(dst, to_copy))
    THEN Undefined(st)
    ELSE extend_record(
            IF to_copy > 0
            THEN [st EXCEPT !.mem = copy(st.mem, src, dst, to_copy)]
            ELSE st,
            len, oc)

\* The record keeping of shrink: data_len -= len as u16; pkt_len -= len as u32.
shrink_record(st, len, oc) ==
    LET dl == CheckedSub(st.data_len, AsU16(len), U16_MOD)
        pl == CheckedSub(st.pkt_len, AsU32(len), U32_MOD)
    IN  IF dl.ovf /\ oc THEN Panic(st)
        ELSE IF pl.ovf /\ oc THEN Panic([st EXCEPT !.data_len = dl.val])
        ELSE Ok([st EXCEPT !.data_len = dl.val, !.pkt_len = pl.val])

\* Mutant of shrink: the counters are dropped but the bytes behind the gap
\* are not moved up.
shrink_without_move(st, offset, len, oc) ==
    IF ~(len > 0) \/ offset + len > DataLen(st) THEN Err("NotResized", st)
    ELSE shrink_record(st, len, oc)

\* Mbuf::shrink
shrink(st, offset, len, oc) ==
    IF ~(len > 0) THEN Err("NotResized", st)
    ELSE LET end == CheckedAdd(offset, len, USIZE_MOD) IN
    IF end.ovf /\ oc THEN Panic(st)
    ELSE IF ~(end.val <= DataLen(st)) THEN Err("NotResized", st)
    ELSE LET d1 == CheckedSub(DataLen(st), offset, USIZE_MOD)
             d2 == CheckedSub(d1.val, len, USIZE_MOD)
         IN
    IF (d1.ovf \/ d2.ovf) /\ oc THEN Panic(st)
    ELSE LET to_copy == d2.val
             src == data_address(end.val)
             dst == data_address(offset)
         IN
    IF to_copy > 0 /\ ~(InAlloc(src, to_copy) /\ InAlloc(dst, to_copy))
    THEN Undefined(st)
    ELSE shrink_record(
            IF to_copy > 0
            THEN [st EXCEPT !.mem = copy(st.mem, src, dst, to_copy)]
            ELSE st,
            len, oc)

\* Mbuf::resize; len is an isize.
resize(st, offset, len, oc) ==
    IF len < 0
    THEN LET neg == CheckedNegI(len) IN
         IF neg.ovf /\ oc THEN Panic(st)
         ELSE shrink(st, offset, AsUsize(neg.val), oc)
    ELSE extend(st, offset, AsUsize(len), oc)

\* Mutant of min: the first argument is taken whatever the second.
min_takes_first(a, b) == a

\* std::cmp::min
min(a, b) == IF a <= b THEN a ELSE b

\* Mutant of resize_to: the bytes are added or removed at the front.
resize_to_at_front(st, len, oc) ==
    IF DataLen(st) # len
    THEN LET delta == CheckedSubI(AsIsize(len), AsIsize(DataLen(st))) IN
         IF delta.ovf /\ oc THEN Panic(st)
         ELSE resize(st, 0, delta.val, oc)
    ELSE Ok(st)

\* Mbuf::resize_to
resize_to(st, len, oc) ==
    IF DataLen(st) # len
    THEN LET delta == CheckedSubI(AsIsize(len), AsIsize(DataLen(st))) IN
         IF delta.ovf /\ oc THEN Panic(st)
         ELSE resize(st, min(DataLen(st), len), delta.val, oc)
    ELSE Ok(st)

\* Mutant of truncate: a to_len equal to data_len is accepted.
truncate_to_same_length(st, to_len) ==
    IF ~(to_len <= DataLen(st)) THEN Err("NotResized", st)
    ELSE Ok([st EXCEPT !.data_len = AsU16(to_len), !.pkt_len = AsU32(to_len)])

\* Mbuf::truncate
truncate(st, to_len) ==
    IF ~(to_len < DataLen(st)) THEN Err("NotResized", st)
    ELSE Ok([st EXCEPT !.data_len = AsU16(to_len), !.pkt_len = AsU32(to_len)])

\* Mbuf::read_data and Mbuf::read_data_slice, for a value of `size` bytes
\* (size_of::<T>(), or size_of::<T>() * count): the checks; no byte is read.
read_data(st, offset, size, oc) ==
    IF ~(offset < DataLen(st)) THEN Err("BadOffset", st)
    ELSE LET end == CheckedAdd(offset, size, USIZE_MOD) IN
    IF end.ovf /\ oc THEN Panic(st)
    ELSE IF ~(end.val <= DataLen(st)) THEN Err("OutOfBuffer", st)
    ELSE Ok(st)

\* Mbuf::write_data and Mbuf::write_data_slice; `bytes` is the value's bytes.
\* The OutOfBuffer error carries data_len - offset, computed when the check
\* fails.
write_data(st, offset, bytes, oc) ==
    LET end == CheckedAdd(offset, Len(bytes), USIZE_MOD) IN
    IF end.ovf /\ oc THEN Panic(st)
    ELSE IF ~(end.val <= DataLen(st))
    THEN IF CheckedSub(DataLen(st), offset, USIZE_MOD).ovf /\ oc
         THEN Panic(st)
         ELSE Err("OutOfBuffer", st)
    ELSE LET dst == data_address(offset) IN
    IF Len(bytes) > 0 /\ ~InAlloc(dst, Len(bytes)) THEN Undefined(st)
    ELSE read_data([st EXCEPT !.mem = copy_nonoverlapping(st.mem, bytes, dst)],
                   offset, Len(bytes), oc)

\* Mbuf::read_data_slice::<u8>: size_of::<u8>() * count bytes at offset.
read_data_slice(st, offset, count, oc) ==
    IF ~(offset < DataLen(st)) THEN Err("BadOffset", st)
    ELSE LET end == CheckedAdd(offset, 1 * count, USIZE_MOD) IN
    IF end.ovf /\ oc THEN Panic(st)
    ELSE IF ~(end.val <= DataLen(st)) THEN Err("OutOfBuffer", st)
    \* slice::from_raw_parts_mut: a slice longer than isize::MAX bytes is
    \* undefined behaviour.
    ELSE IF count > ISIZE_MAX THEN Undefined(st)
    ELSE Ok(st)

\* Mbuf::write_data_slice::<u8>
write_data_slice(st, offset, slice, oc) ==
    LET count == Len(slice)
        end == CheckedAdd(offset, 1 * count, USIZE_MOD)
    IN
    IF end.ovf /\ oc THEN Panic(st)
    ELSE IF ~(end.val <= DataLen(st))
    THEN IF CheckedSub(DataLen(st), offset, USIZE_MOD).ovf /\ oc
         THEN Panic(st)
         ELSE Err("OutOfBuffer", st)
    ELSE LET dst == data_address(offset) IN
    IF count > 0 /\ ~InAlloc(dst, count) THEN Undefined(st)
    ELSE read_data_slice(
            [st EXCEPT !.mem = copy_nonoverlapping(st.mem, slice, dst)],
            offset, count, oc)

\* Mbuf::from_bytes on the buffer Mbuf::new has just allocated; `?` hands an
\* error (and a panic) of extend or write_data_slice on to the caller.
from_bytes(st, data, oc) ==
    LET extended == extend(st, 0, Len(data), oc) IN
    IF extended.res # "Ok" THEN extended
    ELSE write_data_slice(extended.st, 0, data, oc)

\* The layout invariants of the raw struct (single segment, live bytes inside
\* the allocation).
WellFormed(st) == data_off + st.data_len <= buf_len /\ st.pkt_len = st.data_len

-----------------------------------------------------------------------------
(* The arguments the callers pass: every small value, the length of the    *)
(* "too much" test, and the ends of the argument's type.                   *)

Small == 0 .. (room + 1)
Offsets == Small \cup {USIZE_MAX}
Lens == Small \cup {TooMuch, USIZE_MAX}
Deltas == {0 - n : n \in Small} \cup Small \cup {ISIZE_MIN}
NewLens == Small \cup {TooMuch, ISIZE_MAX + 1, USIZE_MAX}
\* size_of::<T>() of the T read, and the element count of a slice read.
Sizes == 1 .. MaxItem
Counts == Small \cup {USIZE_MAX}
BytesOfLen(n) == [1 .. n -> Byte]
Items == UNION {BytesOfLen(n) : n \in 1 .. MaxItem}
Slices == UNION {BytesOfLen(n) : n \in 0 .. MaxItem}

\* The byte arrays handed to Mbuf::from_bytes: every short one, and longer
\* ones up to one byte more than the data room.
Arrays == Slices \cup {[i \in 1 .. n |-> 0] : n \in (MaxItem + 1) .. (room + 1)}

ZeroMem == [a \in Addr |-> 0]
NoChain == [set |-> FALSE, data_len |-> 0, pkt_len |-> 0, mem |-> ZeroMem]
NoCall == [op |-> "none", offset |-> 0, len |-> 0, data |-> << >>, res |-> "Ok"]

\* The buffer is used as a plain Mbuf, through no packet layer.
NoLayer == [kind |-> "none", version |-> 0, offset |-> 0, body |-> 0]

\* No reply_echo is running, none was given a request.
NoRequest ==
    [depth |-> 0, src_mac |-> "unset", dst_mac |-> "unset",
     src_ip |-> "unset", dst_ip |-> "unset", identifier |-> 0, seq_no |-> 0,
     data |-> << >>]
NoReply ==
    [status |-> "none", frees |-> 0, eth_src |-> "unset", eth_dst |-> "unset",
     ip_src |-> "unset", ip_dst |-> "unset", ttl |-> 0, total_len |-> 0]
NoPing ==
    [pc |-> "none", pool |-> FALSE, request |-> NoRequest, reply |-> NoReply,
     postmark |-> "none", view_frees |-> 0, log |-> << >>, seen |-> << >>]

-----------------------------------------------------------------------------
(* The handles of the allocation, before any exists. *)

Handles == 1 .. MaxHandles

NoHandles ==
    /\ status = [h \in Handles |-> "unused"]
    /\ tag = [h \in Handles |-> "Original"]
    /\ ptrs = 0
    /\ free_count = 0
    /\ own_op = [op |-> "none", hs |-> {}, freed |-> 0]

-----------------------------------------------------------------------------
(* Specification Spec: one freshly allocated buffer (Mbuf::new) and the    *)
(* calls made on it.  The pool hands out the buffer with data_len = 0 and  *)
(* unspecified bytes.                                                      *)

Init ==
    /\ room = DataRoom
    /\ layer = NoLayer
    /\ mem \in AllMem
    /\ data_len = 0
    /\ pkt_len = 0
    /\ overflow_checks \in BOOLEAN
    /\ halted = FALSE
    /\ ub = FALSE
    /\ last = NoCall
    /\ pre = [data_len |-> 0, pkt_len |-> 0, mem |-> mem]
    /\ chain = NoChain
    /\ NoHandles
    /\ ping = NoPing

\* A call of `op` that comes to `out`, made by a caller that is between two
\* calls.  A panic unwinds the thread and undefined behaviour ends what the
\* model can say: both stop the run, with the buffer as the call had left it
\* by then.  The run is also not followed past a state whose layout is
\* broken: from there data_len can take every 16-bit value, and the state
\* that broke the layout is the finding.
Outcome(op, offset, len, data, out) ==
    /\ ~halted
    /\ WellFormed(Cur)
    /\ pre' = Cur
    /\ last' = [op |-> op, offset |-> offset, len |-> len, data |-> data,
                res |-> out.res]
    /\ mem' = out.st.mem
    /\ data_len' = out.st.data_len
    /\ pkt_len' = out.st.pkt_len
    /\ halted' = (out.res \in {"Panic", "UB"})
    /\ ub' = (ub \/ out.res = "UB")
    /\ UNCHANGED <<overflow_checks, room>>

\* The same, of a call that is not part of a run of reply_echo and creates
\* or drops no Mbuf value.
Returns(op, offset, len, data, out) ==
    /\ Outcome(op, offset, len, data, out)
    /\ UNCHANGED ovars
    /\ UNCHANGED ping

Call(op, offset, len, data, out) ==
    /\ last.op = "none"
    /\ layer = NoLayer
    /\ Returns(op, offset, len, data, out)
    /\ chain' = NoChain
    /\ UNCHANGED layer

\* The caller has looked at the result of the call and goes on to its next
\* call: the record of the call is dropped, the buffer stays as it is.
Continue ==
    /\ ~halted
    /\ last.op # "none"
    /\ last' = NoCall
    /\ pre' = Cur
    /\ chain' = NoChain
    /\ UNCHANGED <<mem, data_len, pkt_len, overflow_checks, halted, ub>>
    /\ UNCHANGED <<room, layer>>
    /\ UNCHANGED ovars
    /\ UNCHANGED ping

Extend ==
    \E offset \in Offsets, len \in Lens :
        Call("extend", offset, len, << >>,
             extend(Cur, offset, len, overflow_checks))

Shrink ==
    \E offset \in Offsets, len \in Lens :
        Call("shrink", offset, len, << >>,
             shrink(Cur, offset, len, overflow_checks))

\* extend(offset, len) succeeded and the caller at once calls
\* shrink(offset, len); chain keeps the buffer as it was before the extend.
ShrinkBack ==
    /\ last.op = "extend"
    /\ last.res = "Ok"
    /\ Returns("shrink", last.offset, last.len, << >>,
               shrink(Cur, last.offset, last.len, overflow_checks))
    /\ chain' = [set |-> TRUE, data_len |-> pre.data_len,
                 pkt_len |-> pre.pkt_len, mem |-> pre.mem]
    /\ UNCHANGED layer

Resize ==
    \E offset \in Offsets, len \in Deltas :
        Call("resize", offset, len, << >>,
             resize(Cur, offset, len, overflow_checks))

ResizeTo ==
    \E len \in NewLens :
        Call("resize_to", 0, len, << >>,
             resize_to(Cur, len, overflow_checks))

Truncate ==
    \E to_len \in Lens :
        Call("truncate", 0, to_len, << >>, truncate(Cur, to_len))

\* Mbuf::read_data::<T> for a T of `size` bytes.
ReadData ==
    \E offset \in Offsets, size \in Sizes :
        Call("read_data", offset, size, << >>,
             read_data(Cur, offset, size, overflow_checks))

\* Mbuf::read_data_slice::<u8>
ReadDataSlice ==
    \E offset \in Offsets, count \in Counts :
        Call("read_data_slice", offset, count, << >>,
             read_data_slice(Cur, offset, count, overflow_checks))

\* Mbuf::from_bytes.  The buffer it builds comes from Mbuf::new: data_len is
\* 0 and the bytes are whatever the pool hands out.
FromBytes ==
    /\ data_len = 0
    /\ \E data \in Arrays :
        Call("from_bytes", 0, Len(data), data,
             from_bytes(Cur, data, overflow_checks))

WriteData ==
    \E offset \in Offsets, item \in Items :
        Call("write_data", offset, Len(item), item,
             write_data(Cur, offset, item, overflow_checks))

WriteDataSlice ==
    \E offset \in Offsets, slice \in Slices :
        Call("write_data_slice", offset, Len(slice), slice,
             write_data_slice(Cur, offset, slice, overflow_checks))

Next ==
    \/ Extend
    \/ Shrink
    \/ ShrinkBack
    \/ Resize
    \/ ResizeTo
    \/ Truncate
    \/ ReadData
    \/ ReadDataSlice
    \/ FromBytes
    \/ WriteData
    \/ WriteDataSlice
    \/ Continue

Spec == Init /\ [][Next]_vars

-----------------------------------------------------------------------------
(* Properties of the buffer, checked under Spec. *)

\* Byte i of the live region of a buffer.
Live(st, i) == st.mem[data_off + i]

\* The call that has just returned.
Returned(op) == last.op = op
Succeeded(op) == last.op = op /\ last.res = "Ok"

C2_ExtendRelocates ==
    Succeeded("extend") =>
        /\ data_len = pre.data_len + last.len
        /\ pkt_len = pre.pkt_len + last.len
        /\ \A i \in 0 .. (last.offset - 1) : Live(Cur, i) = Live(pre, i)
        /\ \A i \in last.offset .. (pre.data_len - 1) :
                Live(Cur, i + last.len) = Live(pre, i)

\* An extend in front of live bytes that differ, whose source and destination
\* overlap.
C2_Witness ==
    /\ Succeeded("extend")
    /\ pre.data_len - last.offset > last.len
    /\ Live(pre, last.offset) # Live(pre, last.offset + 1)

\* C3: shrink(off, len) returns NotResized exactly when len = 0 or
\* off + len > data_len; otherwise it removes the bytes [off, off + len):
\* bytes [0, off) are unchanged, the old bytes [off + len, L) are at
\* [off, L - len) in the same order, data_len and pkt_len drop by len.
C3_ShrinkContract ==
    Returned("shrink") =>
        LET rejected == last.len = 0 \/ last.offset + last.len > pre.data_len
        IN  /\ last.res = "NotResized" <=> rejected
            /\ ~rejected =>
                /\ last.res = "Ok"
                /\ data_len = pre.data_len - last.len
                /\ pkt_len = pre.pkt_len - last.len
                /\ \A i \in 0 .. (last.offset - 1) : Live(Cur, i) = Live(pre, i)
                /\ \A i \in (last.offset + last.len) .. (pre.data_len - 1) :
                        Live(Cur, i - last.len) = Live(pre, i)

\* C4: whenever extend, shrink, resize, resize_to, truncate, write_data or
\* write_data_slice returns an error, data_len, pkt_len and every live byte
\* are as before the call; extend(0, 999_999) on a fresh buffer returns
\* NotResized and leaves data_len alone.
C4_ErrorLeavesBuffer ==
    /\ IsErr(last.res) =>
        /\ data_len = pre.data_len
        /\ pkt_len = pre.pkt_len
        /\ \A i \in 0 .. (pre.data_len - 1) : Live(Cur, i) = Live(pre, i)
    /\ (Returned("extend") /\ last.offset = 0 /\ last.len = TooMuch) =>
        last.res = "NotResized" /\ data_len = pre.data_len

\* C5: whenever extend(offset, len) succeeds, the shrink(offset, len) that
\* follows it succeeds too, and data_len, pkt_len and the live bytes are
\* then what they were before the two calls.
C5_ExtendShrinkInverse ==
    chain.set =>
        /\ last.res = "Ok"
        /\ data_len = chain.data_len
        /\ pkt_len = chain.pkt_len
        /\ \A i \in 0 .. (chain.data_len - 1) : Live(Cur, i) = Live(chain, i)

\* An extend in front of live bytes that differ was undone.
C5_Witness ==
    /\ chain.set
    /\ last.res = "Ok"
    /\ chain.data_len > last.offset + 1
    /\ Live(chain, last.offset) # Live(chain, last.offset + 1)

\* C6: after any sequence of Mbuf operations on a freshly allocated buffer,
\* data_off + data_len <= buf_len.
C6_LiveBytesInsideBuffer == data_off + data_len <= buf_len

\* C7: after any sequence of Mbuf operations on a buffer that started with
\* pkt_len = data_len, pkt_len = data_len.
C7_SingleSegment == pkt_len = data_len

\* C11: read_data::<T>(offset) and read_data_slice::<T>(offset, count), with
\* size = size_of(T) resp. count * size_of(T), return BadOffset exactly when
\* offset >= data_len, OutOfBuffer exactly when offset < data_len and
\* offset + size > data_len, and otherwise a pointer to the live bytes
\* [offset, offset + size); the buffer is not changed.
C11_ReadContract ==
    (Returned("read_data") \/ Returned("read_data_slice")) =>
        LET size == last.len
            bad == last.offset >= pre.data_len
            out == last.offset < pre.data_len /\ last.offset + size > pre.data_len
        IN  /\ last.res = "BadOffset" <=> bad
            /\ last.res = "OutOfBuffer" <=> out
            /\ (~bad /\ ~out) =>
                    /\ last.res = "Ok"
                    /\ data_address(last.offset) = data_off + last.offset
                    /\ last.offset + size <= pre.data_len
            /\ Cur = pre

\* C13: Mbuf::from_bytes(s) yields a buffer with data_len = |s| whose bytes
\* [0, |s|) are s for every s not larger than the data room of an mbuf, and
\* returns NotResized only when s is larger than that.
C13_FromBytes ==
    Returned("from_bytes") =>
        LET s == last.data IN
        /\ Len(s) <= room =>
                /\ last.res = "Ok"
                /\ data_len = Len(s)
                /\ \A i \in 1 .. Len(s) : Live(Cur, i - 1) = s[i]
        /\ last.res = "NotResized" => Len(s) > room

C15_ResizeTo ==
    Succeeded("resize_to") =>
        /\ data_len = last.len
        /\ pkt_len = last.len
        /\ pre.data_len = last.len => Cur = pre
        /\ mem = pre.mem
        /\ \A i \in 0 .. (min(pre.data_len, last.len) - 1) :
                Live(Cur, i) = Live(pre, i)

\* resize_to changed the length of a buffer of live bytes that differ.
C15_Witness ==
    /\ Succeeded("resize_to")
    /\ pre.data_len > 1
    /\ Live(pre, 0) # Live(pre, 1)
    /\ data_len # pre.data_len
    /\ data_len > 1

\* C25: after a successful extend(off, n) the n bytes of the gap
\* [off, off + n) hold the values that were at [off, off + n) before the
\* call: the move does not write into the gap.
C25_GapKeepsOldBytes ==
    Succeeded("extend") =>
        \A i \in last.offset .. (last.offset + last.len - 1) :
            Live(Cur, i) = Live(pre, i)

\* Room was made in front of live bytes, and the gap starts with a byte that
\* is not zero.
C25_Witness ==
    /\ Succeeded("extend")
    /\ pre.data_len > last.offset
    /\ Live(pre, last.offset) = 1
    /\ Live(Cur, last.offset) = 1

\* C29: the 16-bit data_len never wraps: a successful extend has
\* len < 65536 and old data_len + len <= 65535, a successful shrink or
\* truncate keeps data_len >= 0, so the casts of len lose nothing and the
\* stored counters are the exact sum or difference; tailroom's subtraction
\* never underflows.
C29_CountersNeverWrap ==
    /\ Succeeded("extend") =>
        /\ last.len < U16_MOD
        /\ pre.data_len + last.len <= U16_MOD - 1
        /\ data_len = pre.data_len + last.len
        /\ pkt_len = pre.pkt_len + last.len
    /\ Succeeded("shrink") =>
        /\ last.len < U16_MOD
        /\ pre.data_len - last.len >= 0
        /\ data_len = pre.data_len - last.len
        /\ pkt_len = pre.pkt_len - last.len
    /\ Succeeded("truncate") =>
        /\ last.len < U16_MOD
        /\ data_len = last.len
        /\ pkt_len = last.len
    /\ ~tailroom(Cur).ovf

\* C30: resize_to(len) with len < data_len has the outcome of truncate(len):
\* the same result, data_len and pkt_len, the same bytes, none moved.
C30_ResizeToIsTruncate ==
    (Returned("resize_to") /\ last.len < pre.data_len) =>
        LET cut == truncate(pre, last.len) IN
        /\ last.res = cut.res
        /\ Cur = cut.st
        /\ mem = pre.mem

\* resize_to cut a buffer of live bytes that differ down to a shorter,
\* non-empty one.
C30_Witness ==
    /\ Succeeded("resize_to")
    /\ last.len > 0
    /\ last.len < pre.data_len
    /\ data_len = last.len
    /\ Live(pre, 0) # Live(pre, last.len)

\* C12: write_data and write_data_slice return Ok or a typed error and never
\* panic, whatever the offset and the size of the value, offsets beyond
\* data_len included.
C12_WriteNeverPanics ==
    (Returned("write_data") \/ Returned("write_data_slice")) =>
        last.res = "Ok" \/ IsErr(last.res)

-----------------------------------------------------------------------------
(* Specification SpecOwn: the Mbuf handles of one allocation.  A handle is *)
(* an Mbuf value: MbufInner::Original(ptr) or MbufInner::Clone(ptr) of the *)
(* same ptr.  A raw MbufPtr outside any Mbuf is counted in ptrs.           *)

\* The variant Mbuf::new, Mbuf::from_easyptr and Packet::clone wrap the
\* pointer in.
new_tag == "Original"
from_easyptr_tag == "Original"
clone_tag == "Clone"

\* Mutant of drop_frees: the destructor frees whatever the variant.
drop_frees_any_variant(t) == 1

\* impl Drop for Mbuf: the calls of dpdk::pktmbuf_free, by variant.
drop_frees(t) == IF t = "Original" THEN 1 ELSE 0

\* Mutant of into_easyptr: without mem::forget the consumed Mbuf goes out of
\* scope at the end of the function and its destructor runs.
into_easyptr_without_forget(t) == [status |-> "dropped", freed |-> drop_frees(t)]

\* Mbuf::into_easyptr: the pointer is read out of either variant and the
\* Mbuf is forgotten, so its destructor does not run.
into_easyptr(t) == [status |-> "forgotten", freed |-> 0]

Live_handles == {h \in Handles : status[h] = "live"}
Unused == {h \in Handles : status[h] = "unused"}
\* The next Mbuf value to come into being.
Fresh == CHOOSE h \in Unused : \A g \in Unused : h <= g

\* The pool has handed out the buffer.
Allocated == Unused # Handles \/ ptrs > 0 \/ free_count > 0

InitOwn ==
    /\ room = DataRoom
    /\ layer = NoLayer
    /\ mem = ZeroMem
    /\ data_len = 0
    /\ pkt_len = 0
    /\ overflow_checks = FALSE
    /\ halted = FALSE
    /\ ub = FALSE
    /\ last = NoCall
    /\ pre = [data_len |-> 0, pkt_len |-> 0, mem |-> ZeroMem]
    /\ chain = NoChain
    /\ NoHandles
    /\ ping = NoPing

\* A new Mbuf value with variant t comes into being.
Wrap(op, t) ==
    /\ Unused # {}
    /\ status' = [status EXCEPT ![Fresh] = "live"]
    /\ tag' = [tag EXCEPT ![Fresh] = t]
    /\ own_op' = [op |-> op, hs |-> {Fresh}, freed |-> 0]
    /\ UNCHANGED free_count

\* Mbuf::new: dpdk::pktmbuf_alloc, wrapped as Original.
New ==
    /\ ~Allocated
    /\ Wrap("new", new_tag)
    /\ UNCHANGED ptrs
    /\ UNCHANGED bvars

\* Mbuf::alloc_bulk: dpdk::pktmbuf_alloc_bulk, each pointer through
\* Mbuf::from_easyptr.
AllocBulk ==
    /\ ~Allocated
    /\ Wrap("alloc_bulk", from_easyptr_tag)
    /\ UNCHANGED ptrs
    /\ UNCHANGED bvars

\* Mbuf::from_easyptr on a raw pointer held outside.
FromEasyptr ==
    /\ ptrs > 0
    /\ Wrap("from_easyptr", from_easyptr_tag)
    /\ ptrs' = ptrs - 1
    /\ UNCHANGED bvars

\* Packet::clone for Mbuf, on any Mbuf value.
Clone ==
    /\ Live_handles # {}
    /\ Wrap("clone", clone_tag)
    /\ UNCHANGED ptrs
    /\ UNCHANGED bvars

\* An Mbuf value goes out of scope: impl Drop for Mbuf.
Drop ==
    \E h \in Live_handles :
        /\ status' = [status EXCEPT ![h] = "dropped"]
        /\ free_count' = free_count + drop_frees(tag[h])
        /\ own_op' = [op |-> "drop", hs |-> {h}, freed |-> drop_frees(tag[h])]
        /\ UNCHANGED <<tag, ptrs>>
        /\ UNCHANGED bvars

\* Mbuf::into_easyptr: the caller now holds the raw pointer.
IntoEasyptr ==
    \E h \in Live_handles :
        LET out == into_easyptr(tag[h]) IN
        /\ status' = [status EXCEPT ![h] = out.status]
        /\ free_count' = free_count + out.freed
        /\ ptrs' = ptrs + 1
        /\ own_op' = [op |-> "into_easyptr", hs |-> {h}, freed |-> out.freed]
        /\ UNCHANGED tag
        /\ UNCHANGED bvars

\* The frees the Mbuf values of hs cause on being consumed by into_easyptr.
RECURSIVE ConsumedFrees(_)
ConsumedFrees(hs) ==
    IF hs = {} THEN 0
    ELSE LET h == CHOOSE x \in hs : TRUE
         IN  into_easyptr(tag[h]).freed + ConsumedFrees(hs \ {h})

\* Mbuf::free_bulk: every Mbuf of the Vec through Mbuf::into_easyptr, then
\* dpdk::pktmbuf_free_bulk on the pointers.
FreeBulk ==
    \E hs \in SUBSET Live_handles :
        /\ hs # {}
        /\ status' = [h \in Handles |->
                        IF h \in hs THEN into_easyptr(tag[h]).status
                        ELSE status[h]]
        /\ free_count' = free_count + ConsumedFrees(hs) + Cardinality(hs)
        /\ own_op' = [op |-> "free_bulk", hs |-> hs,
                      freed |-> ConsumedFrees(hs) + Cardinality(hs)]
        /\ UNCHANGED <<tag, ptrs>>
        /\ UNCHANGED bvars

\* Mbuf::free_bulk_ptrs: dpdk::pktmbuf_free_bulk on raw pointers held
\* outside.
FreeBulkPtrs ==
    \E n \in 1 .. ptrs :
        /\ ptrs' = ptrs - n
        /\ free_count' = free_count + n
        /\ own_op' = [op |-> "free_bulk_ptrs", hs |-> {}, freed |-> n]
        /\ UNCHANGED <<status, tag>>
        /\ UNCHANGED bvars

NextOwn ==
    \/ New
    \/ AllocBulk
    \/ FromEasyptr
    \/ Clone
    \/ Drop
    \/ IntoEasyptr
    \/ FreeBulk
    \/ FreeBulkPtrs

SpecOwn == InitOwn /\ [][NextOwn]_vars

-----------------------------------------------------------------------------
(* Properties of the handles, checked under SpecOwn. *)

\* C8: over any sequence of new / from_easyptr, clone, drop, into_easyptr
\* and free_bulk on the handles of one allocation, the pool's free is called
\* for the allocation at most once, and exactly once when the Original
\* handle was dropped (rather than handed off through into_easyptr).
C8_FreedExactlyOnce ==
    /\ free_count <= 1
    /\ (\E h \in Handles : tag[h] = "Original" /\ status[h] = "dropped")
            => free_count = 1

\* C9: dropping a Clone-tagged Mbuf never calls the pool's free; a drop that
\* does is the drop of an Original.
C9_CloneDropFreesNothing ==
    own_op.op = "drop" =>
        \A h \in own_op.hs :
            /\ tag[h] = "Clone" => own_op.freed = 0
            /\ own_op.freed > 0 => tag[h] = "Original"

\* A Clone was dropped while its Original lives on, and nothing was freed.
C9_Witness ==
    /\ own_op.op = "drop"
    /\ \E h \in own_op.hs : tag[h] = "Clone" /\ status[h] = "dropped"
    /\ \E h \in Live_handles : tag[h] = "Original"
    /\ free_count = 0

-----------------------------------------------------------------------------
(* Specification SpecEcho: an ICMP Echo Reply (ICMPv4 and ICMPv6) viewed   *)
(* over the buffer.  The envelope layers (Ethernet, IP) and the common     *)
(* ICMP header lie in front of the message body; the envelope's headers    *)
(* are scaled down to 0 .. MaxEnvelope bytes.                              *)

\* Data room of the buffers of SpecEcho.
EchoRoom == 11
\* Longest envelope (all headers in front of the ICMP header).
MaxEnvelope == 1
\* Most payload bytes behind the ICMP header of a received packet.
MaxPayload == 6
\* Longest data handed to set_data.
MaxData == 3

\* Size of the common ICMP header (type, code, checksum): header_len of an
\* Echo Reply.
IcmpHeaderLen == 4
\* EchoReplyBody::size_of() (v6) and EchoReply::size_of() (v4).
EchoReplyBodySize == 4

\* Packet::header_len, Packet::payload_offset and Packet::payload_len of the
\* ICMP layer and of its Echo Reply message.
header_len(ly) == IcmpHeaderLen
payload_offset(ly) == ly.offset + header_len(ly)
payload_len(st, ly) == DataLen(st) - ly.offset - header_len(ly)

\* u16::to_be and u16::from_be on the little-endian target: the two bytes
\* change places.
to_be_without_swap(x) == x
to_be(x) == (x % 256) * 256 + (x \div 256)
from_be(x) == (x % 256) * 256 + (x \div 256)

\* u16be::from(u16) and u16::from(u16be) (`into`) of the v6 body's fields.
u16be_from(x) == to_be(x)
u16_from(b) == from_be(b)

\* A u16 field of a packed struct at p: written and read in the target's
\* (little-endian) byte order.
store_u16(m, p, v) ==
    [a \in Addr |-> IF a = p THEN v % 256
                    ELSE IF a = p + 1 THEN v \div 256
                    ELSE m[a]]
load_u16(m, p) == m[p] + 256 * m[p + 1]

\* identifier / set_identifier and seq_no / set_seq_no, on the body the
\* layer points at: v4 converts with u16::to_be / u16::from_be, v6 through
\* u16be.
identifier(st, ly) ==
    IF ly.version = 4 THEN from_be(load_u16(st.mem, ly.body))
    ELSE u16_from(load_u16(st.mem, ly.body))
set_identifier(st, ly, x) ==
    Ok([st EXCEPT !.mem =
            store_u16(st.mem, ly.body,
                      IF ly.version = 4 THEN to_be(x) ELSE u16be_from(x))])
seq_no(st, ly) ==
    IF ly.version = 4 THEN from_be(load_u16(st.mem, ly.body + 2))
    ELSE u16_from(load_u16(st.mem, ly.body + 2))
set_seq_no(st, ly, x) ==
    Ok([st EXCEPT !.mem =
            store_u16(st.mem, ly.body + 2,
                      IF ly.version = 4 THEN to_be(x) ELSE u16be_from(x))])

\* Mutant of data_offset: the data is taken to start where the body starts.
data_offset_at_body(ly) == payload_offset(ly)

\* data_offset and data_len of the Echo Reply (the latter a subtraction in
\* usize).
data_offset(ly) == payload_offset(ly) + EchoReplyBodySize
echo_data_len(st, ly) ==
    CheckedSub(AsUsize(payload_len(st, ly)), EchoReplyBodySize, USIZE_MOD)

\* The n bytes at offset of the live region.
slice_at(st, at, n) == [i \in 1 .. n |-> st.mem[data_address(at) + i - 1]]

\* EchoReply::data: the slice read_data_slice returns; unreachable!() panics
\* when read_data_slice returns an error.
echo_data(st, ly, oc) ==
    LET dl == echo_data_len(st, ly) IN
    IF dl.ovf /\ oc THEN [res |-> "Panic", st |-> st, bytes |-> << >>]
    ELSE LET read == read_data_slice(st, data_offset(ly), dl.val, oc) IN
    IF read.res = "Ok"
    THEN [res |-> "Ok", st |-> st,
          bytes |-> slice_at(st, data_offset(ly), dl.val)]
    ELSE IF read.res = "UB" THEN [res |-> "UB", st |-> st, bytes |-> << >>]
    ELSE [res |-> "Panic", st |-> st, bytes |-> << >>]

\* EchoReply::set_data
set_data(st, ly, bytes, oc) ==
    LET dl == echo_data_len(st, ly) IN
    IF dl.ovf /\ oc THEN Panic(st)
    ELSE LET delta == CheckedSubI(AsIsize(Len(bytes)), AsIsize(dl.val)) IN
    IF delta.ovf /\ oc THEN Panic(st)
    ELSE LET resized == resize(st, data_offset(ly), delta.val, oc) IN
    IF resized.res # "Ok" THEN resized
    ELSE write_data_slice(resized.st, data_offset(ly), bytes, oc)

\* Mutant of try_parse: the body is not checked to be there.
try_parse_without_read(st, ly, oc) == Ok(st)

\* EchoReply::try_parse: read_data::<EchoReplyBody> at the ICMP layer's
\* payload offset.
try_parse(st, ly, oc) ==
    read_data(st, payload_offset(ly), EchoReplyBodySize, oc)

\* EchoReplyBody::default(): identifier and seq_no 0.
default_body == [i \in 1 .. EchoReplyBodySize |-> 0]

\* Mutant of try_push: the error of extend is not handed on (no `?`).
try_push_ignoring_extend(st, ly, oc) ==
    LET extended == extend(st, payload_offset(ly), EchoReplyBodySize, oc) IN
    write_data(extended.st, payload_offset(ly), default_body, oc)

\* Mutant of try_push: the body is written over the payload's first bytes,
\* no room is made for it.
try_push_without_extend(st, ly, oc) ==
    write_data(st, payload_offset(ly), default_body, oc)

\* EchoReply::try_push
try_push(st, ly, oc) ==
    LET extended == extend(st, payload_offset(ly), EchoReplyBodySize, oc) IN
    IF extended.res # "Ok" THEN extended
    ELSE write_data(extended.st, payload_offset(ly), default_body, oc)

\* Packet::try_push and Packet::try_parse of Icmpv4<EchoReply>: the generic
\* ICMPv4 layer, which makes room for / reads the payload the same way.
icmpv4_try_push(st, ly, oc) == try_push(st, ly, oc)
icmpv4_try_parse(st, ly, oc) == try_parse(st, ly, oc)

\* The common ICMPv6 header as Packet::push writes it: type 129 (Echo
\* Reply), code 0, checksum 0.
icmp_header == <<129, 0, 0, 0>>

\* Packet::push of EchoReply<E> onto the envelope E: the common ICMPv6
\* header is pushed at the envelope's payload offset, then
\* EchoReply::try_push pushes the body behind it.
push(st, ly, oc) ==
    LET extended == extend(st, ly.offset, IcmpHeaderLen, oc) IN
    IF extended.res # "Ok" THEN extended
    ELSE LET written == write_data(extended.st, ly.offset, icmp_header, oc) IN
    IF written.res # "Ok" THEN written
    ELSE try_push(written.st, ly, oc)

\* Packet::remove: the buffer is shrunk by header_len at the layer's offset
\* and the envelope is returned.
remove(st, ly, oc) == shrink(st, ly.offset, header_len(ly), oc)

\* Packet::try_parse, try_push, deparse, remove and reset of Mbuf: each
\* returns the Mbuf it was given.
mbuf_packet(st) == Ok(st)
MbufPacketOps ==
    {"mbuf_try_parse", "mbuf_try_push", "mbuf_deparse", "mbuf_remove",
     "mbuf_reset"}

\* The envelope a remove returns.
Envelope(ly) ==
    [kind |-> "envelope", version |-> ly.version, offset |-> ly.offset,
     body |-> 0]

\* The message view a successful parse or push returns: the ICMP layer with
\* the pointer to the body.
EchoReply(ly) ==
    [kind |-> "echo", version |-> ly.version, offset |-> ly.offset,
     body |-> data_address(payload_offset(ly))]

\* A failed push has consumed the layer: the caller holds nothing.
NoPacket(ly) ==
    [kind |-> "dropped", version |-> ly.version, offset |-> ly.offset,
     body |-> 0]

\* The values callers set, and the data they hand to set_data.
U16Values == {7, 42, 43981}
DataArrays == UNION {BytesOfLen(n) : n \in 0 .. MaxData}

\* The bytes of a buffer the pool hands out or the port received.
EchoMem == [a \in Addr |-> 1 + (a % 2)]

\* An ICMP layer (version 4 or 6) over its envelope, pushed onto a new
\* buffer (no payload) or parsed from a received one (some payload); or the
\* IPv6 envelope alone, with its payload.  layer.offset is where the
\* envelope's payload starts: the offset of the ICMP header.
InitEcho ==
    /\ room = EchoRoom
    /\ \E kind \in {"icmp", "envelope"}, version \in {4, 6},
          envelope \in 0 .. MaxEnvelope :
        /\ kind = "envelope" => version = 6
        /\ layer = [kind |-> kind, version |-> version, offset |-> envelope,
                    body |-> 0]
    /\ mem = EchoMem
    /\ \E payload \in 0 .. MaxPayload :
        LET header == IF layer.kind = "icmp" THEN IcmpHeaderLen ELSE 0 IN
        /\ layer.offset + header + payload <= room
        /\ data_len = layer.offset + header + payload
    /\ pkt_len = data_len
    /\ overflow_checks \in BOOLEAN
    /\ halted = FALSE
    /\ ub = FALSE
    /\ last = NoCall
    /\ pre = [data_len |-> data_len, pkt_len |-> pkt_len, mem |-> mem]
    /\ chain = NoChain
    /\ NoHandles
    /\ ping = NoPing

\* A call on the layer, by a caller that is between two calls; ly is the
\* layer the caller holds afterwards.
EchoCall(op, offset, len, data, out, ly) ==
    /\ last.op = "none"
    /\ Returns(op, offset, len, data, out)
    /\ chain' = NoChain
    /\ layer' = ly

TryParse ==
    /\ layer.kind = "icmp"
    /\ layer.version = 6
    /\ LET out == try_parse(Cur, layer, overflow_checks) IN
       EchoCall("try_parse", payload_offset(layer), EchoReplyBodySize, << >>,
                out, IF out.res = "Ok" THEN EchoReply(layer) ELSE layer)

TryPush ==
    /\ layer.kind = "icmp"
    /\ layer.version = 6
    /\ LET out == try_push(Cur, layer, overflow_checks) IN
       EchoCall("try_push", payload_offset(layer), EchoReplyBodySize, << >>,
                out, IF out.res = "Ok" THEN EchoReply(layer)
                     ELSE NoPacket(layer))

Icmpv4TryParse ==
    /\ layer.kind = "icmp"
    /\ layer.version = 4
    /\ LET out == icmpv4_try_parse(Cur, layer, overflow_checks) IN
       EchoCall("try_parse", payload_offset(layer), EchoReplyBodySize, << >>,
                out, IF out.res = "Ok" THEN EchoReply(layer) ELSE layer)

Icmpv4TryPush ==
    /\ layer.kind = "icmp"
    /\ layer.version = 4
    /\ LET out == icmpv4_try_push(Cur, layer, overflow_checks) IN
       EchoCall("try_push", payload_offset(layer), EchoReplyBodySize, << >>,
                out, IF out.res = "Ok" THEN EchoReply(layer)
                     ELSE NoPacket(layer))

SetIdentifier ==
    /\ layer.kind = "echo"
    /\ \E x \in U16Values :
        EchoCall("set_identifier", layer.body, x, << >>,
                 set_identifier(Cur, layer, x), layer)

SetSeqNo ==
    /\ layer.kind = "echo"
    /\ \E x \in U16Values :
        EchoCall("set_seq_no", layer.body + 2, x, << >>,
                 set_seq_no(Cur, layer, x), layer)

SetData ==
    /\ layer.kind = "echo"
    /\ \E bytes \in DataArrays :
        EchoCall("set_data", data_offset(layer), Len(bytes), bytes,
                 set_data(Cur, layer, bytes, overflow_checks), layer)

Data ==
    /\ layer.kind = "echo"
    /\ LET out == echo_data(Cur, layer, overflow_checks) IN
       EchoCall("data", data_offset(layer), Len(out.bytes), out.bytes, out,
                layer)

\* Packet::push of EchoReply<Ipv6> onto its envelope.
Push ==
    /\ layer.kind = "envelope"
    /\ LET out == push(Cur, layer, overflow_checks) IN
       EchoCall("push", layer.offset, IcmpHeaderLen + EchoReplyBodySize,
                << >>, out,
                IF out.res = "Ok" THEN EchoReply(layer) ELSE NoPacket(layer))

\* Packet::remove of the EchoReply that has just been pushed; chain keeps
\* the buffer as the envelope had it before the push.
Remove ==
    /\ layer.kind = "echo"
    /\ last.op = "push"
    /\ last.res = "Ok"
    /\ LET out == remove(Cur, layer, overflow_checks) IN
       /\ Returns("remove", layer.offset, header_len(layer), << >>, out)
       /\ layer' = IF out.res = "Ok" THEN Envelope(layer) ELSE NoPacket(layer)
    /\ chain' = [set |-> TRUE, data_len |-> pre.data_len,
                 pkt_len |-> pre.pkt_len, mem |-> pre.mem]

\* The Packet operations of Mbuf itself, on the buffer under the envelope.
MbufPacket ==
    /\ layer.kind = "envelope"
    /\ \E op \in MbufPacketOps :
        EchoCall(op, 0, 0, << >>, mbuf_packet(Cur), layer)

NextEcho ==
    \/ Push
    \/ Remove
    \/ MbufPacket
    \/ TryParse
    \/ TryPush
    \/ Icmpv4TryParse
    \/ Icmpv4TryPush
    \/ SetIdentifier
    \/ SetSeqNo
    \/ SetData
    \/ Data
    \/ Continue

SpecEcho == InitEcho /\ [][NextEcho]_vars

-----------------------------------------------------------------------------
(* Properties of the Echo Reply, checked under SpecEcho. *)

\* C16: set_data(d) followed by data() returns exactly d and payload_len is
\* then the body size (4) + |d|, for every d and every current data length;
\* set_data returns an error only if the buffer does not have enough free
\* space for the bytes d has more than the current data.
C16_SetDataThenData ==
    Returned("set_data") =>
        LET had == echo_data_len(pre, layer).val
            got == echo_data(Cur, layer, overflow_checks)
        IN  /\ last.res # "Ok" =>
                /\ IsErr(last.res)
                /\ Len(last.data) - had >= tailroom(pre).val
            /\ last.res = "Ok" =>
                /\ got.res = "Ok"
                /\ got.bytes = last.data
                /\ payload_len(Cur, layer) = EchoReplyBodySize + Len(last.data)

\* C17: data() never panics: on every Echo Reply that was pushed or parsed,
\* one with no data behind the body included, it returns the bytes
\* [data_offset, mbuf.data_len) (the empty slice when there are none).
C17_DataNeverPanics ==
    Returned("data") =>
        /\ last.res = "Ok"
        /\ last.data = slice_at(Cur, data_offset(layer),
                                data_len - data_offset(layer))

\* C18 as stated: pushing an ICMPv6 EchoReply onto an ICMPv6 layer extends
\* the buffer by the 4-byte body at the layer's payload offset and writes an
\* all-zero body: afterwards header_len = 4, payload_len = 4, identifier = 0,
\* seq_no = 0, and the bytes before the payload offset are unchanged.
C18_PushEchoReplyAsStated ==
    (Succeeded("try_push") /\ layer.version = 6) =>
        /\ data_len = pre.data_len + EchoReplyBodySize
        /\ header_len(layer) = 4
        /\ payload_len(Cur, layer) = 4
        /\ identifier(Cur, layer) = 0
        /\ seq_no(Cur, layer) = 0
        /\ \A i \in 0 .. (payload_offset(layer) - 1) : Live(Cur, i) = Live(pre, i)

\* C18, amended: as stated, except that payload_len is 4 plus the payload
\* the ICMPv6 layer had before the push (4 when it had none), and that
\* payload follows the new body unchanged.
C18_PushEchoReply ==
    (Succeeded("try_push") /\ layer.version = 6) =>
        /\ data_len = pre.data_len + EchoReplyBodySize
        /\ pkt_len = pre.pkt_len + EchoReplyBodySize
        /\ header_len(layer) = 4
        /\ payload_len(Cur, layer) = 4 + payload_len(pre, layer)
        /\ payload_len(pre, layer) = 0 => payload_len(Cur, layer) = 4
        /\ identifier(Cur, layer) = 0
        /\ seq_no(Cur, layer) = 0
        /\ \A i \in 0 .. (EchoReplyBodySize - 1) :
                Live(Cur, payload_offset(layer) + i) = 0
        /\ \A i \in 0 .. (payload_offset(layer) - 1) : Live(Cur, i) = Live(pre, i)
        /\ \A i \in payload_offset(layer) .. (pre.data_len - 1) :
                Live(Cur, i + EchoReplyBodySize) = Live(pre, i)

\* An EchoReply was pushed onto an ICMPv6 layer that has an envelope in front
\* and a payload behind.
C18_Witness ==
    /\ Succeeded("try_push")
    /\ layer.version = 6
    /\ layer.kind = "echo"
    /\ layer.offset > 0
    /\ payload_len(pre, layer) > 0

\* C19: set_identifier(x) followed by identifier() returns x, set_seq_no(x)
\* followed by seq_no() returns x; the two bytes of the field hold x in
\* big-endian order, and no other byte of the buffer changes (so the other
\* field keeps its value).
C19_FieldRoundTrip ==
    /\ Succeeded("set_identifier") =>
        /\ identifier(Cur, layer) = last.len
        /\ mem[layer.body] = last.len \div 256
        /\ mem[layer.body + 1] = last.len % 256
        /\ seq_no(Cur, layer) = seq_no(pre, layer)
        /\ \A a \in Addr \ {layer.body, layer.body + 1} : mem[a] = pre.mem[a]
        /\ data_len = pre.data_len
    /\ Succeeded("set_seq_no") =>
        /\ seq_no(Cur, layer) = last.len
        /\ mem[layer.body + 2] = last.len \div 256
        /\ mem[layer.body + 3] = last.len % 256
        /\ identifier(Cur, layer) = identifier(pre, layer)
        /\ \A a \in Addr \ {layer.body + 2, layer.body + 3} : mem[a] = pre.mem[a]
        /\ data_len = pre.data_len

\* The identifier of an Echo Reply was set to 0xABCD while its seq_no is 42.
C19_Witness ==
    /\ Succeeded("set_identifier")
    /\ last.len = 43981
    /\ identifier(Cur, layer) = 43981
    /\ seq_no(Cur, layer) = 42

\* C20: try_parse of an ICMPv6 layer whose payload has fewer bytes than the
\* 4-byte body fails and hands the same ICMPv6 layer back with the error; the
\* buffer's bytes and data_len are unchanged.
C20_ParseFailureReturnsEnvelope ==
    [][(/\ last.op = "none"
        /\ last'.op = "try_parse"
        /\ layer.version = 6
        /\ payload_len(Cur, layer) < EchoReplyBodySize)
       => (/\ IsErr(last'.res)
           /\ layer' = layer
           /\ mem' = mem
           /\ data_len' = data_len
           /\ pkt_len' = pkt_len)]_vars

\* A parse of an ICMPv6 payload of one to three bytes failed and the caller
\* holds the ICMPv6 layer again.
C20_Witness ==
    /\ Returned("try_parse")
    /\ last.res = "OutOfBuffer"
    /\ layer.version = 6
    /\ layer.kind = "icmp"
    /\ payload_len(Cur, layer) > 0
    /\ Cur = pre

\* C21 as stated: when the buffer lacks room for the 4-byte EchoReply body,
\* EchoReply::try_push returns the OutOfBuffer error.
C21_PushFailsOutOfBuffer ==
    (/\ Returned("try_push")
     /\ layer.version = 6
     /\ buf_len - data_off - pre.data_len < EchoReplyBodySize)
    => last.res = "OutOfBuffer"

\* C21, amended: the error is NotResized (the buffer is left as it was).
C21_PushFailsNotResized ==
    (/\ Returned("try_push")
     /\ layer.version = 6
     /\ buf_len - data_off - pre.data_len < EchoReplyBodySize)
    => (last.res = "NotResized" /\ Cur = pre /\ layer.kind = "dropped")

\* A push onto an ICMPv6 layer with a payload of at least the body's size and
\* fewer than 4 bytes of tailroom was turned down.
C21_Witness ==
    /\ Returned("try_push")
    /\ layer.version = 6
    /\ last.res = "NotResized"
    /\ buf_len - data_off - pre.data_len < EchoReplyBodySize
    /\ payload_len(pre, layer) >= EchoReplyBodySize

\* C27: set_data is all-or-nothing: whenever it returns an error, data_len
\* and the bytes of the buffer are as before the call.
C27_SetDataAllOrNothing ==
    (Returned("set_data") /\ IsErr(last.res)) =>
        /\ data_len = pre.data_len
        /\ pkt_len = pre.pkt_len
        /\ \A i \in 0 .. (pre.data_len - 1) : Live(Cur, i) = Live(pre, i)

\* C28: a successful set_data changes only the data tail: every byte in
\* front of the data (outer headers, ICMP header, identifier, seq_no) is as
\* before, so the body pointer refers to the same body bytes.
C28_SetDataKeepsHeaders ==
    Succeeded("set_data") =>
        /\ \A a \in Addr :
                a < layer.body + EchoReplyBodySize => mem[a] = pre.mem[a]
        /\ identifier(Cur, layer) = identifier(pre, layer)
        /\ seq_no(Cur, layer) = seq_no(pre, layer)

\* Data was set on an Echo Reply whose identifier and seq_no are not zero,
\* and the length of the data changed.
C28_Witness ==
    /\ Succeeded("set_data")
    /\ identifier(Cur, layer) = 43981
    /\ seq_no(Cur, layer) = 42
    /\ data_len # pre.data_len
    /\ \E i \in 1 .. Len(last.data) : last.data[i] = 1

\* C22: pushing a layer onto an envelope and removing it again yields the
\* envelope byte for byte, with the same data_len; and for the Mbuf layer
\* push, parse, deparse, remove and reset change no byte and no counter.
C22_PushRemoveRoundTrip ==
    /\ (Returned("remove") /\ chain.set) =>
        /\ last.res = "Ok"
        /\ data_len = chain.data_len
        /\ pkt_len = chain.pkt_len
        /\ \A i \in 0 .. (chain.data_len - 1) : Live(Cur, i) = Live(chain, i)
    /\ last.op \in MbufPacketOps => (last.res = "Ok" /\ Cur = pre)

-----------------------------------------------------------------------------
(* Specification SpecPing: one run of ping4d's reply_echo on a received    *)
(* packet.  The buffer variables hold the reply it builds; the handles are *)
(* the Mbuf values of the received packet (the packet itself and the views *)
(* peeked from it).  The Ethernet and IPv4 headers are scaled down to      *)
(* EthernetLen and Ipv4Len bytes and their fields are kept in ping.reply.  *)

\* Largest data room of the pool the reply is allocated from.
PingRoom == 13
\* Scaled-down sizes of the Ethernet and the IPv4 header.
EthernetLen == 1
Ipv4Len == 1

\* The TTL reply_echo sets.
ReplyTtl == 255

\* The Mbuf value reply_echo is given: the first of the handles.
Packet == CHOOSE h \in Handles : \A g \in Handles : h <= g

\* The common ICMPv4 header as Packet::push writes it: type 0 (Echo Reply),
\* code 0, checksum 0.
icmpv4_header == <<0, 0, 0, 0>>

\* Packet::push of an envelope layer (Ethernet, Ipv4): room for the header
\* is made at offset and the default header is written there.
push_header(st, offset, len, oc) ==
    LET extended == extend(st, offset, len, oc) IN
    IF extended.res # "Ok" THEN extended
    ELSE write_data(extended.st, offset, [i \in 1 .. len |-> 0], oc)

\* Packet::push of Icmpv4<EchoReply> onto its envelope: the common header,
\* then the message body through Packet::try_push.
icmpv4_push(st, ly, oc) ==
    LET extended == extend(st, ly.offset, IcmpHeaderLen, oc) IN
    IF extended.res # "Ok" THEN extended
    ELSE LET written == write_data(extended.st, ly.offset, icmpv4_header, oc) IN
    IF written.res # "Ok" THEN written
    ELSE icmpv4_try_push(written.st, ly, oc)

\* The one's-complement sum of the 16-bit big-endian words of bytes, with
\* end-around carry, complemented.
RECURSIVE sum16(_, _)
sum16(bytes, i) ==
    IF i > Len(bytes) THEN 0
    ELSE bytes[i] * 256 + (IF i + 1 <= Len(bytes) THEN bytes[i + 1] ELSE 0)
         + sum16(bytes, i + 2)
fold(s) ==
    LET once == (s % U16_MOD) + (s \div U16_MOD)
    IN  (once % U16_MOD) + (once \div U16_MOD)
checksum(bytes) == (U16_MOD - 1) - fold(sum16(bytes, 1))

\* The ICMP message of the layer: header, body and data.
message(st, ly) == slice_at(st, ly.offset, st.data_len - ly.offset)

\* Icmpv4::compute_checksum: the checksum field is zeroed, the sum is taken
\* over the message and written back big-endian.
compute_checksum(st, ly) ==
    LET at == data_address(ly.offset) + 2
        zeroed == [st EXCEPT !.mem = store_u16(st.mem, at, 0)]
    IN  [st EXCEPT !.mem =
            store_u16(st.mem, at, to_be(checksum(message(zeroed, ly))))]

\* The cascade of the envelope: Ipv4 recomputes its total length from
\* data_len (its header checksum covers the header only), then Ethernet,
\* which has no derived field.  seen is the ICMP message as it stands when
\* the envelope computes.
envelope_cascade(st, ly) ==
    [st |-> st, total_len |-> st.data_len - EthernetLen,
     seen |-> message(st, ly), log |-> <<"ipv4", "ethernet">>]

\* Mutant of cascade: the envelope's cascade runs before this layer's
\* checksum is computed.
cascade_envelope_first(st, ly) ==
    LET outer == envelope_cascade(st, ly)
        summed == compute_checksum(outer.st, ly)
    IN  [st |-> summed, total_len |-> outer.total_len, seen |-> outer.seen,
         log |-> outer.log \o <<"icmpv4">>]

\* Icmpv4<EchoReply>::cascade
cascade(st, ly) ==
    LET summed == compute_checksum(st, ly)
        outer == envelope_cascade(summed, ly)
    IN  [st |-> outer.st, total_len |-> outer.total_len, seen |-> outer.seen,
         log |-> <<"icmpv4">> \o outer.log]

\* Packet::reconcile_all of the Echo Reply: the layer's cascade, which goes
\* on to the envelope.
reconcile_all(st, ly) == cascade(st, ly)

\* EchoRequest::identifier, seq_no and data of the parsed request.
request_identifier(rq) == rq.identifier
request_seq_no(rq) == rq.seq_no
request_data(rq) == rq.data

\* The requests a port hands to reply_echo: depth layers of it parse (3: it
\* is an Ethernet / IPv4 / ICMPv4 Echo Request).
Requests ==
    {[depth |-> 3, src_mac |-> "MacA", dst_mac |-> "MacB", src_ip |-> "IpA",
      dst_ip |-> "IpB", identifier |-> x, seq_no |-> y, data |-> d] :
        x \in U16Values, y \in U16Values, d \in DataArrays}
    \cup {[NoRequest EXCEPT !.depth = n] : n \in 0 .. 2}

\* The reply fits the buffer it is built in, by extend's measure: every
\* extend leaves at least one byte of tailroom.
Fits(d) ==
    EthernetLen + Ipv4Len + IcmpHeaderLen + EchoReplyBodySize + Len(d) < room

InitPing ==
    /\ room \in 0 .. PingRoom
    /\ layer = NoLayer
    /\ mem = EchoMem
    /\ data_len = 0
    /\ pkt_len = 0
    /\ overflow_checks \in BOOLEAN
    /\ halted = FALSE
    /\ ub = FALSE
    /\ last = NoCall
    /\ pre = [data_len |-> 0, pkt_len |-> 0, mem |-> mem]
    /\ chain = NoChain
    /\ status = [h \in Handles |-> IF h = Packet THEN "live" ELSE "unused"]
    /\ tag = [h \in Handles |-> from_easyptr_tag]
    /\ ptrs = 0
    /\ free_count = 0
    /\ own_op = [op |-> "none", hs |-> {}, freed |-> 0]
    /\ \E pool \in BOOLEAN, request \in Requests :
        ping = [NoPing EXCEPT !.pc = "new", !.pool = pool,
                              !.request = request]

\* The frees the destructors of the Mbuf values hs cause.
RECURSIVE DropFrees(_)
DropFrees(hs) ==
    IF hs = {} THEN 0
    ELSE LET h == CHOOSE x \in hs : TRUE
         IN  drop_frees(tag[h]) + DropFrees(hs \ {h})

\* What reply_echo returns for a call that did not come to Ok.
Failure(out) == IF out.res \in {"Panic", "UB"} THEN out.res ELSE "Err"

\* reply_echo goes on to its next statement; reply is the reply as the
\* statement leaves it.
Goes(pc, reply) ==
    /\ ping' = [ping EXCEPT !.pc = pc, !.reply = reply]
    /\ UNCHANGED ovars

\* reply_echo returns (or unwinds): its locals go out of scope.  The views
\* are dropped, view_drops counts the frees of a view dropped inside the
\* failing call; the packet is dropped unless it was moved into the
\* Postmark; the reply is dropped if it is still held.
Return(result, moved, view_drops, reply) ==
    LET views == {h \in Live_handles : tag[h] = clone_tag}
        vfrees == DropFrees(views) + view_drops
        pfrees == IF moved THEN 0 ELSE drop_frees(tag[Packet])
    IN  /\ status' = [h \in Handles |->
                        IF h = Packet /\ moved THEN "handed"
                        ELSE IF status[h] = "live" THEN "dropped"
                        ELSE status[h]]
        /\ free_count' = free_count + vfrees + pfrees
        /\ own_op' = [op |-> "return", hs |-> Live_handles,
                      freed |-> vfrees + pfrees]
        /\ UNCHANGED <<tag, ptrs>>
        /\ ping' = [ping EXCEPT
                        !.pc = "done",
                        !.postmark = result,
                        !.view_frees = @ + vfrees,
                        !.reply = IF reply.status = "live"
                                  THEN [reply EXCEPT
                                            !.status = "dropped",
                                            !.frees = @ + drop_frees(new_tag)]
                                  ELSE reply]

\* let reply = Mbuf::new()?;
NewReply ==
    /\ ping.pc = "new"
    /\ Outcome("new", 0, 0, << >>,
               IF ping.pool THEN Ok(Cur) ELSE Err("DpdkError", Cur))
    /\ chain' = NoChain
    /\ UNCHANGED layer
    /\ IF ping.pool
       THEN Goes("peek_ethernet", [ping.reply EXCEPT !.status = "live"])
       ELSE Return("Err", FALSE, 0, ping.reply)

\* peek::<T>()?: a Clone of the Mbuf value is parsed as the next layer; when
\* the parse fails the Clone is dropped and reply_echo returns the error.
Peek(op, depth, next) ==
    LET parsed == ping.request.depth >= depth IN
    /\ Outcome(op, 0, 0, << >>, IF parsed THEN Ok(Cur) ELSE Err("Parse", Cur))
    /\ chain' = NoChain
    /\ UNCHANGED layer
    /\ IF parsed
       THEN /\ Wrap(op, clone_tag)
            /\ UNCHANGED ptrs
            /\ ping' = [ping EXCEPT !.pc = next]
       ELSE Return("Err", FALSE, drop_frees(clone_tag), ping.reply)

\* let ethernet = packet.peek::<Ethernet>()?;
PeekEthernet ==
    /\ ping.pc = "peek_ethernet"
    /\ Peek("peek_ethernet", 1, "push_ethernet")

\* let mut reply = reply.push::<Ethernet>()?; set_src; set_dst
PushEthernet ==
    /\ ping.pc = "push_ethernet"
    /\ LET out == push_header(Cur, 0, EthernetLen, overflow_checks) IN
       /\ Outcome("push_ethernet", 0, EthernetLen, << >>, out)
       /\ IF out.res = "Ok"
          THEN Goes("peek_ipv4",
                    [ping.reply EXCEPT !.eth_src = ping.request.dst_mac,
                                       !.eth_dst = ping.request.src_mac])
          ELSE Return(Failure(out), FALSE, 0, ping.reply)
    /\ chain' = NoChain
    /\ UNCHANGED layer

\* let ipv4 = ethernet.peek::<Ipv4>()?;
PeekIpv4 ==
    /\ ping.pc = "peek_ipv4"
    /\ Peek("peek_ipv4", 2, "push_ipv4")

\* let mut reply = reply.push::<Ipv4>()?; set_src; set_dst; set_ttl(255)
PushIpv4 ==
    /\ ping.pc = "push_ipv4"
    /\ LET out == push_header(Cur, EthernetLen, Ipv4Len, overflow_checks) IN
       /\ Outcome("push_ipv4", EthernetLen, Ipv4Len, << >>, out)
       /\ IF out.res = "Ok"
          THEN Goes("peek_echo_request",
                    [ping.reply EXCEPT !.ip_src = ping.request.dst_ip,
                                       !.ip_dst = ping.request.src_ip,
                                       !.ttl = ReplyTtl])
          ELSE Return(Failure(out), FALSE, 0, ping.reply)
    /\ chain' = NoChain
    /\ UNCHANGED layer

\* let request = ipv4.peek::<EchoRequest>()?;
PeekEchoRequest ==
    /\ ping.pc = "peek_echo_request"
    /\ Peek("peek_echo_request", 3, "push_echo_reply")

\* let mut reply = reply.push::<EchoReply>()?;
PushEchoReply ==
    /\ ping.pc = "push_echo_reply"
    /\ LET ly == [kind |-> "envelope", version |-> 4,
                  offset |-> EthernetLen + Ipv4Len, body |-> 0]
           out == icmpv4_push(Cur, ly, overflow_checks)
       IN  /\ Outcome("push_echo_reply", ly.offset,
                      IcmpHeaderLen + EchoReplyBodySize, << >>, out)
           /\ IF out.res = "Ok"
              THEN /\ Goes("set_identifier", ping.reply)
                   /\ layer' = EchoReply(ly)
              ELSE /\ Return(Failure(out), FALSE, 0, ping.reply)
                   /\ layer' = NoPacket(ly)
    /\ chain' = NoChain

\* reply.set_identifier(request.identifier());
CopyIdentifier ==
    /\ ping.pc = "set_identifier"
    /\ LET x == request_identifier(ping.request) IN
       Outcome("set_identifier", layer.body, x, << >>,
               set_identifier(Cur, layer, x))
    /\ Goes("set_seq_no", ping.reply)
    /\ chain' = NoChain
    /\ UNCHANGED layer

\* reply.set_seq_no(request.seq_no());
CopySeqNo ==
    /\ ping.pc = "set_seq_no"
    /\ LET y == request_seq_no(ping.request) IN
       Outcome("set_seq_no", layer.body + 2, y, << >>,
               set_seq_no(Cur, layer, y))
    /\ Goes("set_data", ping.reply)
    /\ chain' = NoChain
    /\ UNCHANGED layer

\* reply.set_data(request.data())?;
CopyData ==
    /\ ping.pc = "set_data"
    /\ LET d == request_data(ping.request)
           out == set_data(Cur, layer, d, overflow_checks)
       IN  /\ Outcome("set_data", data_offset(layer), Len(d), d, out)
           /\ IF out.res = "Ok"
              THEN Goes("reconcile_all", ping.reply)
              ELSE Return(Failure(out), FALSE, 0, ping.reply)
    /\ chain' = NoChain
    /\ UNCHANGED layer

\* reply.reconcile_all();
ReconcileAll ==
    /\ ping.pc = "reconcile_all"
    /\ LET out == reconcile_all(Cur, layer) IN
       /\ Outcome("reconcile_all", layer.offset, 0, << >>, Ok(out.st))
       /\ ping' = [ping EXCEPT !.pc = "emit_and_drop",
                               !.reply.total_len = out.total_len,
                               !.log = out.log,
                               !.seen = out.seen]
    /\ UNCHANGED ovars
    /\ chain' = NoChain
    /\ UNCHANGED layer

\* Ok(Postmark::emit_and_drop(reply, packet))
EmitAndDrop ==
    /\ ping.pc = "emit_and_drop"
    /\ Outcome("emit_and_drop", 0, 0, << >>, Ok(Cur))
    /\ Return("EmitAndDrop", TRUE, 0, [ping.reply EXCEPT !.status = "handed"])
    /\ chain' = NoChain
    /\ UNCHANGED layer

NextPing ==
    \/ NewReply
    \/ PeekEthernet
    \/ PushEthernet
    \/ PeekIpv4
    \/ PushIpv4
    \/ PeekEchoRequest
    \/ PushEchoReply
    \/ CopyIdentifier
    \/ CopySeqNo
    \/ CopyData
    \/ ReconcileAll
    \/ EmitAndDrop

SpecPing == InitPing /\ [][NextPing]_vars

-----------------------------------------------------------------------------
(* Properties of reply_echo, checked under SpecPing. *)

\* C23: reconciliation runs inner to outer.  The cascade of the ICMPv4 Echo
\* Reply computes this layer's checksum first and only then runs the
\* envelope's cascade: the ICMP message the envelope's computation saw is
\* the message as it stands in the reconciled buffer, checksum included, and
\* the IPv4 total length is that of the final buffer.
C23_InnerBeforeOuter ==
    ping.log # << >> =>
        /\ ping.log[1] = "icmpv4"
        /\ \A i \in 2 .. Len(ping.log) : ping.log[i] # "icmpv4"
        /\ ping.seen = message(Cur, layer)
        /\ ping.reply.total_len = data_len - EthernetLen

\* reconcile_all has run on a reply with data and has written a checksum
\* that is not zero.
C23_Witness ==
    /\ last.op = "reconcile_all"
    /\ Len(ping.request.data) > 0
    /\ load_u16(mem, data_address(layer.offset) + 2) # 0
    /\ Len(ping.log) > 1

\* C24: for every received IPv4 / ICMPv4 Echo Request with identifier X,
\* sequence number Y and data D, any D that fits and the empty D included,
\* reply_echo (given a buffer by the pool) returns EmitAndDrop(reply,
\* request), the reply a new buffer with the MAC addresses swapped, the IP
\* addresses swapped, TTL 255, identifier X, sequence number Y and data D.
C24_EchoResponder ==
    (/\ ping.pc = "done"
     /\ ping.pool
     /\ ping.request.depth = 3
     /\ Fits(ping.request.data)) =>
        /\ ping.postmark = "EmitAndDrop"
        /\ ping.reply.status = "handed"
        /\ status[Packet] = "handed"
        /\ ping.reply.eth_src = ping.request.dst_mac
        /\ ping.reply.eth_dst = ping.request.src_mac
        /\ ping.reply.ip_src = ping.request.dst_ip
        /\ ping.reply.ip_dst = ping.request.src_ip
        /\ ping.reply.ttl = ReplyTtl
        /\ identifier(Cur, layer) = ping.request.identifier
        /\ seq_no(Cur, layer) = ping.request.seq_no
        /\ slice_at(Cur, data_offset(layer), data_len - data_offset(layer))
               = ping.request.data

\* C26: on every exit path of reply_echo the received buffer and the reply
\* buffer are each either freed exactly once or handed to the runtime in
\* the returned Postmark, never leaked and never freed twice; no peeked
\* view of the request frees it, and nothing is freed while reply_echo
\* still runs.
C26_FreedOrHandedOnce ==
    /\ ping.view_frees = 0
    /\ ping.pc \notin {"none", "done"} =>
        /\ free_count = 0
        /\ ping.reply.frees = 0
        /\ status[Packet] = "live"
    /\ ping.pc = "done" =>
        /\ Live_handles = {}
        /\ free_count + (IF status[Packet] = "handed" THEN 1 ELSE 0) = 1
        /\ ping.reply.status \in {"none", "dropped", "handed"}
        /\ ping.reply.frees
               + (IF ping.reply.status = "handed" THEN 1 ELSE 0)
               = (IF ping.reply.status = "none" THEN 0 ELSE 1)
        /\ (status[Packet] = "handed" \/ ping.reply.status = "handed")
               => ping.postmark = "EmitAndDrop"

\* reply_echo has returned the Postmark with both buffers in it, and the
\* three views peeked from the request have been dropped.
C26_Witness ==
    /\ ping.pc = "done"
    /\ ping.postmark = "EmitAndDrop"
    /\ Cardinality({h \in Handles :
                        tag[h] = clone_tag /\ status[h] = "dropped"}) = 3

====
